---- MODULE Spec2Model ----
(***************************************************************************)
(* Model of pscore_match/pscore.py: class PropensityScore.                 *)
(*                                                                         *)
(* One estimator object is modelled.  Its state is the two attributes set  *)
(* by __init__ (self.treatment, self.covariates); everything else below is *)
(* what a caller observes of the most recent call (the exception raised,   *)
(* the value returned, the warnings emitted, the library calls made).      *)
(*                                                                         *)
(* The statsmodels functions the class calls are modelled by their         *)
(* documented interface:                                                   *)
(*   - sm.add_constant(data, prepend, has_constant='skip') returns a NEW   *)
(*     table; with has_constant='skip' (the default, which the code does   *)
(*     not override) the data are returned without an added column when a  *)
(*     column is already a non-zero constant;                              *)
(*   - sm.Logit / sm.Probit (endog, exog).fit(...).predict() is a          *)
(*     numerical maximum-likelihood fit.  Its numbers are not computed     *)
(*     here: a fitted probability is the uninterpreted term                *)
(*     cdf_family(x_i . params(family, endog, exog, start)), kept as the   *)
(*     record of what it depends on.                                       *)
(***************************************************************************)
EXTENDS Integers, Sequences, FiniteSets

\* ---------------------------------------------------------------- bounds

\* Largest number of observations (rows / treatment labels) explored.
MaxObs == 2
\* Largest number of covariate columns explored.
MaxCols == 2

\* Cell values of the covariate table: 0 and a non-zero value are enough to
\* build an all-zero column, a non-zero constant column and a varying one.
Values == {0, 1}
\* Treatment labels.
Labels == {0, 1}

\* ---------------------------------------------------------------- tables

\* A covariate table (pd.DataFrame): its column count and its rows in order.
Table(c, rs) == [ncols |-> c, rows |-> rs]

SeqsOfLen(S, n) == [1..n -> S]

\* All tables with n rows and c columns over Values.
TablesOf(n, c) == { Table(c, rs) : rs \in SeqsOfLen(SeqsOfLen(Values, c), n) }

AllTables == UNION { TablesOf(n, c) : n \in 0..MaxObs, c \in 0..MaxCols }

AllTreatments == UNION { SeqsOfLen(Labels, n) : n \in 0..MaxObs }

\* x.shape[0] of a table and of a one-dimensional array.
NRows(tb) == Len(tb.rows)

Column(tb, j) == [i \in 1..NRows(tb) |-> tb.rows[i][j]]

\* ---------------------------------------------------------------- statsmodels

\* add_trend's test for "this column is already a constant":
\* np.ptp(s) == 0.0 and np.any(s != 0.0); an empty column is not one.
IsNonzeroConstant(col) ==
    /\ Len(col) > 0
    /\ \A i \in 1..Len(col) : col[i] = col[1]
    /\ col[1] # 0

HasConstant(tb) == \E j \in 1..tb.ncols : IsNonzeroConstant(Column(tb, j))

\* The column of ones placed last (prepend=False) or first (prepend=True).
WithOnes(tb, prepend) ==
    Table(tb.ncols + 1,
          [i \in 1..NRows(tb) |->
              IF prepend THEN <<1>> \o tb.rows[i] ELSE Append(tb.rows[i], 1)])

\* sm.add_constant(data, prepend=prepend) with has_constant left at 'skip'.
\* The result is a new table; the argument is not modified.
AddConstant(tb, prepend) == IF HasConstant(tb) THEN tb ELSE WithOnes(tb, prepend)

\* The prepend argument the code passes.
PrependTrue == TRUE
Prepend == FALSE

\* Line 52: predictors = sm.add_constant(self.covariates, prepend=False)
Predictors(cov) == AddConstant(cov, Prepend)

\* ---------------------------------------------------------------- dispatch

NoArg == "<no argument>"
NoFamily == "<none>"
\* What a call hands back: nothing (it raised), or a value.
NoModel == [family |-> NoFamily, endog |-> <<>>, exog |-> Table(0, <<>>), start |-> "default"]
\* What a call hands back: nothing (it raised), or a vector.  A vector lists,
\* per position, what the entry is computed from besides the fitted model.
NoResult == [some |-> FALSE, fit |-> NoModel, value |-> <<>>]
Result(v) == [some |-> TRUE, fit |-> v.fit, value |-> v.value]

\* Method strings a caller passes; NoArg is the call compute().
MethodStrings == {"logistic", "probit", "linear", "", "LOGISTIC"}
Args == MethodStrings \cup {NoArg}

\* def compute(self, method: str = 'logistic')
DefaultMethod == "logistic"

MethodOf(a) == IF a = NoArg THEN DefaultMethod ELSE a

\* Lines 53-58: the if / elif / else on the method string (== on str is exact).
FamilySwapped(method) ==
    IF method = "logistic" THEN "Probit"
    ELSE IF method = "probit" THEN "Logit"
    ELSE NoFamily
FamilyFallThrough(method) ==
    IF method = "probit" THEN "Probit" ELSE "Logit"
FamilyAnyCase(method) ==
    IF method \in {"logistic", "LOGISTIC"} THEN "Logit"
    ELSE IF method \in {"probit", "PROBIT"} THEN "Probit"
    ELSE NoFamily
Family(method) ==
    IF method = "logistic" THEN "Logit"
    ELSE IF method = "probit" THEN "Probit"
    ELSE NoFamily

\* .fit(disp=False, warn_convergence=True): no start_params are passed, so
\* every fit starts from the solver's default whatever was fitted before.
StartParamsWarm(prev) == IF prev.family = NoFamily THEN "default" ELSE prev.family
StartParams(prev) == "default"

WarnConvergenceOff == FALSE
WarnConvergence == TRUE

\* The fitted model: the solver's estimate is a function of the family, the
\* response, the design matrix and the starting point.
Fit(family, endog, exog, start) ==
    [family |-> family, endog |-> endog, exog |-> exog, start |-> start]

\* model.predict() with no argument: one fitted probability per row of the
\* design matrix the model was fitted on, in row order.
Predict(model) ==
    [fit |-> model, value |-> [i \in 1..NRows(model.exog) |-> model.exog.rows[i]]]

\* model.params: one coefficient per column of the design matrix.
Params(model) ==
    [fit |-> model, value |-> [j \in 1..model.exog.ncols |-> <<j>>]]

\* Line 59: return model.predict()
ReturnedParams(model) == Params(model)
Returned(model) == Predict(model)

\* The warnings of one fit: the solver warns of non-convergence only when
\* asked to (warn_convergence).
FitWarnings(converged, warn) ==
    IF ~converged /\ warn THEN {"ConvergenceWarning"} ELSE {}

\* Line 33: assert treatment.shape[0] == covariates.shape[0]
ShapesMatchOff(t, cov) == TRUE
ShapesMatch(t, cov) == Len(t) = NRows(cov)

\* compute assigns no attribute: add_constant works on a copy and the model
\* is a local.
StoredCovariatesInPlace(cov, predictors) == predictors
StoredCovariates(cov, predictors) == cov

\* ---------------------------------------------------------------- state

VARIABLES
    constructed,  \* an estimator object exists
    treatment,    \* self.treatment
    covariates,   \* self.covariates
    converges,    \* the solver's optimiser converges on this data
    supplied,     \* the arguments of the most recent constructor call
    op,           \* the most recent call: "none", "construct", "compute"
    arg,          \* the argument of the most recent compute call
    raised,       \* the exception the most recent call raised, or "none"
    ret,          \* the value the most recent compute call returned
    warnings,     \* the warnings the most recent call emitted
    calls,        \* the library calls the most recent compute made, in order
    seen          \* per watched argument, what the first compute with it
                  \* produced, and whether it has been called again since

vars == <<constructed, treatment, covariates, converges, supplied, op, arg,
          raised, ret, warnings, calls, seen>>

\* What a caller observes of one compute call.
Observed(r, v, w, c) == [raised |-> r, ret |-> v, warnings |-> w, calls |-> c]
NoObs == [first |-> Observed("never called", NoResult, {}, <<>>), again |-> FALSE]
Called(a) == seen[a] # NoObs
\* The arguments whose observations are kept for comparison.
Watched == {"logistic", "probit"}

Init ==
    /\ constructed = FALSE
    /\ treatment = <<>>
    /\ covariates = Table(0, <<>>)
    /\ converges = TRUE
    /\ supplied = [treatment |-> <<>>, covariates |-> Table(0, <<>>)]
    /\ op = "none"
    /\ arg = NoArg
    /\ raised = "none"
    /\ ret = NoResult
    /\ warnings = {}
    /\ calls = <<>>
    /\ seen = [a \in Watched |-> NoObs]

\* PropensityScore(t, cov), lines 24-36.  The behaviour follows one constructor
\* call: it yields the estimator, or raises and there is no object to call.
Construct(t, cov) ==
    /\ op = "none"
    /\ op' = "construct"
    /\ supplied' = [treatment |-> t, covariates |-> cov]
    /\ IF ShapesMatch(t, cov)
       THEN /\ constructed' = TRUE
            /\ treatment' = t
            /\ covariates' = cov
            /\ raised' = "none"
            \* Whether the solver converges on this data is a fact of the data.
            /\ converges' \in BOOLEAN
       ELSE /\ raised' = "AssertionError"
            /\ UNCHANGED <<constructed, treatment, covariates, converges>>
    /\ UNCHANGED <<arg, ret, warnings, calls, seen>>

\* self.compute(a), lines 38-59.
Compute(a) ==
    /\ constructed
    /\ LET method == MethodOf(a)
           predictors == Predictors(covariates)
           family == Family(method)
           model == Fit(family, treatment, predictors, StartParams(ret.fit))
           ok == family # NoFamily
       IN /\ op' = "compute"
          /\ arg' = a
          /\ calls' = <<"add_constant">> \o
                      (IF ok THEN <<family, "fit", "predict">> ELSE <<>>)
          /\ raised' = IF ok THEN "none" ELSE "ValueError"
          /\ ret' = IF ok THEN Result(Returned(model)) ELSE NoResult
          /\ warnings' = IF ok
                         THEN FitWarnings(converges, WarnConvergence)
                         ELSE {}
          /\ covariates' = StoredCovariates(covariates, predictors)
          /\ seen' = IF a \notin Watched THEN seen
                     ELSE IF Called(a) THEN [seen EXCEPT ![a].again = TRUE]
                     ELSE [seen EXCEPT ![a].first =
                              Observed(raised', ret', warnings', calls')]
    /\ UNCHANGED <<constructed, treatment, converges, supplied>>

Next ==
    \/ op = "none" /\ \E t \in AllTreatments, cov \in AllTables : Construct(t, cov)
    \/ constructed /\ \E a \in Args : Compute(a)

Spec == Init /\ [][Next]_vars

\* ---------------------------------------------------------------- shorthands

Recognized == {"logistic", "probit"}
\* The most recent call was compute with this effective method string
\* (compute() is compute('logistic') by the signature's default).
LastMethod == IF arg = NoArg THEN "logistic" ELSE arg
ComputedRecognized == op = "compute" /\ LastMethod \in Recognized
ComputedUnrecognized == op = "compute" /\ LastMethod \notin Recognized
\* What the most recent call let its caller observe.
LastObserved == Observed(raised, ret, warnings, calls)
\* Column j of the stored covariates has zero variance.
ZeroVariance(j) ==
    /\ NRows(covariates) > 0
    /\ \A i \in 1..NRows(covariates) : covariates.rows[i][j] = covariates.rows[1][j]
\* ... and its one value is not zero.
NonzeroConstantColumn(j) == ZeroVariance(j) /\ covariates.rows[1][j] # 0
FitCalls == { k \in 1..Len(calls) : calls[k] = "fit" }
SolverCalls == { k \in 1..Len(calls) : calls[k] \in {"Logit", "Probit", "fit", "predict"} }

\* ---------------------------------------------------------------- C1

\* C1: a constructor call with a treatment of length N and a table of M rows
\* raises the shape error (the assert's AssertionError) and yields no
\* estimator when N # M, and when N = M succeeds and stores both arguments;
\* an estimator that exists never holds inputs of different lengths.
C1_ShapeMismatchRejected ==
    /\ op = "construct" =>
          IF Len(supplied.treatment) # NRows(supplied.covariates)
          THEN raised = "AssertionError" /\ ~constructed
          ELSE /\ raised = "none"
               /\ constructed
               /\ treatment = supplied.treatment
               /\ covariates = supplied.covariates
    /\ constructed => Len(treatment) = NRows(covariates)

C1_Witness ==
    /\ op = "construct"
    /\ Len(supplied.treatment) = 2
    /\ NRows(supplied.covariates) = 1
    /\ raised = "AssertionError"

\* ---------------------------------------------------------------- C2

\* C2: compute with a method string other than exactly "logistic" or "probit"
\* ("linear", "", "LOGISTIC": the comparison is case-sensitive) raises the
\* unrecognized-method error (ValueError) and hands back no result.
C2_UnrecognizedMethodRaises ==
    ComputedUnrecognized => raised = "ValueError" /\ ret = NoResult

C2_Witness ==
    /\ op = "compute"
    /\ arg = "LOGISTIC"
    /\ raised = "ValueError"
    /\ Called("logistic")

\* ---------------------------------------------------------------- C3

C4_StoredInputsUnchanged ==
    constructed =>
        /\ treatment = supplied.treatment
        /\ covariates = supplied.covariates

\* After logistic, probit and a failing call, on a table that add_constant
\* extends.
C4_Witness ==
    /\ ComputedUnrecognized
    /\ Called("logistic")
    /\ Called("probit")
    /\ \A j \in 1..covariates.ncols : ~NonzeroConstantColumn(j)
    /\ covariates.ncols = 2
    /\ NRows(covariates) = 2

\* ---------------------------------------------------------------- C5

\* C5: a compute call with a method returns what the first call with that
\* method on this estimator returned, whatever calls were made in between.
C5_Deterministic ==
    (op = "compute" /\ arg \in Watched) =>
        /\ raised = seen[arg].first.raised
        /\ ret = seen[arg].first.ret

\* logistic called a further time, with a probit call somewhere before it.
C5_Witness ==
    /\ op = "compute"
    /\ arg = "logistic"
    /\ seen["logistic"].again
    /\ Called("probit")
    /\ NRows(covariates) = 2

\* ---------------------------------------------------------------- C7

\* C7: a returning compute made exactly one fit, of the Logit model for
\* "logistic" and of the Probit model for "probit", with the stored treatment
\* as the response and the design matrix as predictors; compute() with no
\* argument lets the caller observe exactly what compute("logistic") did.
C7_Dispatch ==
    /\ (op = "compute" /\ raised = "none") =>
          /\ LastMethod \in Recognized
          /\ Cardinality(FitCalls) = 1
          /\ calls = <<"add_constant",
                       IF LastMethod = "logistic" THEN "Logit" ELSE "Probit",
                       "fit", "predict">>
          /\ ret.fit.family = calls[2]
          /\ ret.fit.endog = treatment
          /\ ret.fit.exog = Predictors(covariates)
    /\ (op = "compute" /\ arg = NoArg /\ Called("logistic")) =>
          LastObserved = seen["logistic"].first

C7_Witness ==
    /\ op = "compute"
    /\ arg = NoArg
    /\ Called("logistic")
    /\ Called("probit")
    /\ ret.fit.family = "Logit"
    /\ Len(treatment) = 2

\* ---------------------------------------------------------------- C8

\* C8: when the solver does not converge in a compute with a recognized
\* method, no error is raised, the convergence warning is emitted, the fit is
\* made once (no retry) and a result of full length is returned.
C8_NonConvergenceNotFatal ==
    (ComputedRecognized /\ ~converges) =>
        /\ raised = "none"
        /\ "ConvergenceWarning" \in warnings
        /\ Cardinality(FitCalls) = 1
        /\ ret.some
        /\ Len(ret.value) = Len(treatment)

C8_Witness ==
    /\ ComputedRecognized
    /\ ~converges
    /\ arg = "probit"
    /\ Len(ret.value) = 2
    /\ warnings = {"ConvergenceWarning"}

\* ---------------------------------------------------------------- C9

\* The design matrix handed to the solver is the covariate columns in order
\* followed by one more column holding a constant.
AppendedLast(X) ==
    /\ X.ncols = covariates.ncols + 1
    /\ NRows(X) = NRows(covariates)
    /\ \A i \in 1..NRows(X) :
          /\ Len(X.rows[i]) = covariates.ncols + 1
          /\ SubSeq(X.rows[i], 1, covariates.ncols) = covariates.rows[i]
          /\ X.rows[i][covariates.ncols + 1] = 1

\* C9 as stated: for every covariate table of C columns, one with a
\* zero-variance column included, the design matrix passed to the solver has
\* C+1 columns, the covariates in order and then the constant column.
C9_AlwaysOneMoreColumn ==
    (op = "compute" /\ ret.some) => AppendedLast(ret.fit.exog)

\* C9 amended: the design matrix passed to the solver is the covariate
\* columns in order followed by one column of ones (C+1 columns), unless a
\* covariate column is already a non-zero constant: then nothing is appended
\* and the design matrix is the covariate table as it is (C columns).  An
\* all-zero column does not count as a constant.
C9_ConstantAppendedUnlessPresent ==
    (op = "compute" /\ ret.some) =>
        IF \E j \in 1..covariates.ncols : NonzeroConstantColumn(j)
        THEN ret.fit.exog = covariates
        ELSE AppendedLast(ret.fit.exog)

\* Two columns, the second all zero (zero variance, yet no constant): the
\* column of ones is appended third.
C9_Witness ==
    /\ op = "compute"
    /\ ret.some
    /\ covariates.ncols = 2
    /\ NRows(covariates) = 2
    /\ ZeroVariance(2) /\ ~NonzeroConstantColumn(2)
    /\ ~ZeroVariance(1)
    /\ ret.fit.exog.ncols = 3

\* ---------------------------------------------------------------- C10

\* C10 as stated: an unrecognized method is rejected before any computation:
\* the error is raised before the design matrix is built and before any
\* solver is invoked.
C10_RejectedBeforeAnyComputation ==
    ComputedUnrecognized => raised = "ValueError" /\ calls = <<>>

\* C10 amended: with an unrecognized method compute first builds the design
\* matrix (add_constant, line 52) and then rejects the method: the call made
\* no solver call (no model, fit or predict) and fails with the
\* unrecognized-method error (ValueError) and no other.
C10_RejectedBeforeAnySolver ==
    ComputedUnrecognized =>
        /\ raised = "ValueError"
        /\ calls = <<"add_constant">>
        /\ SolverCalls = {}
        /\ ~ret.some

C10_Witness ==
    /\ op = "compute"
    /\ arg = "linear"
    /\ raised = "ValueError"
    /\ calls = <<"add_constant">>

====
